---- MODULE Spec2Model ----
(***************************************************************************)
(* Model of the smart irrigation controller of src/src/main.cpp: the       *)
(* cooperative loop(), the sampling step (handleMenu, processIrrigation),  *)
(* the three request handlers registered by setupServer(), the Preferences *)
(* handle that persists the threshold, and the environment the firmware    *)
(* reads (time, the three buttons, the moisture sensor, HTTP clients).     *)
(* The character display is write-only for the program and is left out.    *)
(*                                                                         *)
(* A loop() iteration is two steps: server.handleClient(), which serves at *)
(* most one request, and the rest of the body (the sampling step when it   *)
(* is due, then pref.end()). Time passes and the menu button moves between *)
(* steps; delay(1500) of /toggle-mode passes inside its handler. The + and *)
(* - buttons are read by handleMenu only, so their levels are inputs of    *)
(* the sampling step. millis() stays far below 2^32 within MaxTime, so the *)
(* unsigned differences of the code never wrap here.                       *)
(***************************************************************************)
EXTENDS Integers, Sequences, FiniteSets, TLC

(***************************************************************************)
(* Program constants                                                       *)
(***************************************************************************)
HIGH == 1
LOW == 0
debounceDelay == 50
moistureCheckInterval == 1000
thresholdAdjustInterval == 200
DefaultThreshold == 40
BuzzerLevel == 20
SetupDelay == 2000
ToggleDelay == 1500
AdcMax == 4095
\* millis() and the time stamps are unsigned long: the clock wraps around and
\* differences are taken modulo its range. The clock of the model wraps at
\* ClockModulus ms instead of 2^32 ms
ClockModulus == 10000

(***************************************************************************)
(* Bounds of the model                                                     *)
(***************************************************************************)
\* the environment lets time pass while millis() stays within MaxTime (ms since
\* boot); the delay of a /toggle-mode request is served in full beyond it
MaxTime == 3040
\* at most MaxRequests HTTP requests are served per boot
MaxRequests == 2
\* the runs over whole sampling intervals end at MaxMenuTime (ms since boot)
MaxMenuTime == 5000

\* the time that may pass between two steps of the program (ms)
TimeSteps == {40, 1000}

\* the readings of millis() the model tells apart, modulo half a second
TimeGrid == {0, 40}

\* raw ADC samples the sensor may give; as percentages 40, 20, 19
RawValues == {2457, 3276, 3317}

\* the text of the "value" argument of a /threshold request
ValueArgs == { <<"1", "5", "0">>, <<"-", "7">>, <<"a", "b", "c">>,
               <<" ", "1", "0", "0", "x">> }

\* the text of the "action" argument of a /threshold request
ActionArgs == {"increase", "decrease", "reset"}

VARIABLES
    moistureThreshold,        \* int moistureThreshold
    currentMoisture,          \* int currentMoisture (raw ADC sample)
    menuActive,               \* bool menuActive
    systemMode,               \* bool systemMode: FALSE = manual, TRUE = WiFi
    lastMenuButtonState,
    lastPlusButtonState,
    lastMinusButtonState,
    lastDebounceTime,
    lastMoistureCheckTime,
    lastThresholdAdjustTime,
    relay,                    \* level of RELAY_PIN
    buzzer,                   \* level of BUZZER_PIN
    menuPin,                  \* level of MENU_BUTTON_PIN (pull-up, active low)
    now,                      \* millis()
    prefStarted,              \* the Preferences handle is open (begin .. end)
    nvs,                      \* <<v>>: v is stored under the key "threshold"; <<>>: no key
    pc,                       \* position of loop(): "handleClient" or "sample"
    op,                       \* the last step the program took
    response,                 \* the last HTTP response sent
    served,                   \* number of requests served since boot
    modeToggled,              \* an odd number of /toggle-mode requests since boot
    edgeLog,                  \* observer of the raw press edges of the menu button
    request                   \* observer of the arguments of the request being served

vars == << moistureThreshold, currentMoisture, menuActive, systemMode,
           lastMenuButtonState, lastPlusButtonState, lastMinusButtonState,
           lastDebounceTime, lastMoistureCheckTime, lastThresholdAdjustTime,
           relay, buzzer, menuPin, now, prefStarted, nvs,
           pc, op, response, served, modeToggled, edgeLog, request >>

(***************************************************************************)
(* Pure functions                                                          *)
(***************************************************************************)
min(a, b) == IF a < b THEN a ELSE b
max(a, b) == IF a > b THEN a ELSE b

\* C++ integer division truncates toward zero
CDiv(a, b) == IF a >= 0 THEN a \div b ELSE -((-a) \div b)

\* Arduino map(): (x - in_min) * (out_max - out_min) / (in_max - in_min) + out_min
map(x, in_min, in_max, out_min, out_max) ==
    CDiv((x - in_min) * (out_max - out_min), in_max - in_min) + out_min

\* variant: the percentage is not inverted (wet-high sensor)
MoisturePercentage_Direct(raw) == map(raw, 0, AdcMax, 0, 100)

\* loop(): int moisturePercentage = 100 - map(currentMoisture, 0, 4095, 0, 100)
MoisturePercentage(raw) == 100 - map(raw, 0, AdcMax, 0, 100)

\* variant: the /status handler reports the raw scale, not inverted
StatusPercentage_Direct(raw) == map(raw, 0, AdcMax, 0, 100)

\* the /status handler: int moisturePercentage = 100 - map(currentMoisture, 0, 4095, 0, 100)
StatusPercentage(raw) == 100 - map(raw, 0, AdcMax, 0, 100)

IsDigit(c) == c \in {"0", "1", "2", "3", "4", "5", "6", "7", "8", "9"}
DigitVal(c) ==
    CASE c = "0" -> 0 [] c = "1" -> 1 [] c = "2" -> 2 [] c = "3" -> 3
      [] c = "4" -> 4 [] c = "5" -> 5 [] c = "6" -> 6 [] c = "7" -> 7
      [] c = "8" -> 8 [] c = "9" -> 9

RECURSIVE ParseDigits(_, _, _)
ParseDigits(s, i, acc) ==
    IF i > Len(s) \/ ~IsDigit(s[i]) THEN acc
    ELSE ParseDigits(s, i + 1, acc * 10 + DigitVal(s[i]))

RECURSIVE SkipSpace(_, _)
SkipSpace(s, i) == IF i <= Len(s) /\ s[i] = " " THEN SkipSpace(s, i + 1) ELSE i

\* String::toInt(): leading blanks, an optional sign, then the leading digits;
\* 0 when there are none
toInt(s) ==
    LET i == SkipSpace(s, 1)
    IN  IF i <= Len(s) /\ s[i] = "-" THEN -ParseDigits(s, i + 1, 0)
        ELSE IF i <= Len(s) /\ s[i] = "+" THEN ParseDigits(s, i + 1, 0)
        ELSE ParseDigits(s, i, 0)

Level(b) == IF b THEN HIGH ELSE LOW

(***************************************************************************)
(* HTTP requests and responses                                             *)
(***************************************************************************)
Request(p, ha, a, hv, v) ==
    [path |-> p, hasAction |-> ha, action |-> a, hasValue |-> hv, value |-> v]

ThresholdRequests ==
    { Request("/threshold", TRUE, a, FALSE, <<>>) : a \in ActionArgs }
    \cup { Request("/threshold", FALSE, "", TRUE, v) : v \in ValueArgs }
    \cup { Request("/threshold", FALSE, "", FALSE, <<>>),
           Request("/threshold", TRUE, "increase", TRUE, <<"7">>) }

Text(body) == [ctype |-> "text", body |-> body, moisture |-> 0, threshold |-> 0]
Json(m, t, status) == [ctype |-> "json", body |-> status, moisture |-> m, threshold |-> t]
NoResponse == Text("")

\* no request has been observed
NoRequest == Request("", FALSE, "", FALSE, <<>>)

(***************************************************************************)
(* Preferences (non-volatile storage)                                      *)
(***************************************************************************)
\* the store holds the key "threshold" with one value, <<v>>, or not at all, <<>>
\* pref.putInt(thresh, v): stores v when the handle is open, nothing otherwise
putInt(v) == IF prefStarted THEN <<v>> ELSE nvs

\* pref.isKey(thresh) on a handle that is open (started) or not
isKey(started) == started /\ nvs # <<>>

\* pref.getInt(thresh): the stored value; 0 on a closed handle or a missing key
getInt(started) == IF started /\ nvs # <<>> THEN nvs[1] ELSE 0

\* int moistureThreshold = pref.isKey(thresh) ? pref.getInt(thresh) : 40;
\* the initializer runs before setup() calls pref.begin(), on a closed handle
InitialThreshold ==
    IF isKey(FALSE) THEN getInt(FALSE) ELSE DefaultThreshold

(***************************************************************************)
(* Observer of the menu button: the raw press edges (HIGH to LOW) seen on  *)
(* the pin, the time between the first two, and the toggles of menuActive  *)
(* that followed them. count = 3 stands for more than two edges.           *)
(***************************************************************************)
EdgeLog(c, l, g, t, j) ==
    [count |-> c, last |-> l, gap |-> g, toggles |-> t, judged |-> j]

NoEdges == EdgeLog(0, 0, 0, 0, FALSE)
ManyEdges == EdgeLog(3, 0, 0, 0, FALSE)

\* the log after a raw press edge at time t
EdgeSeen(t) ==
    IF edgeLog.count = 0 THEN EdgeLog(1, t, 0, 0, FALSE)
    ELSE IF edgeLog.count = 1
    THEN EdgeLog(2, t, t - edgeLog.last, edgeLog.toggles, FALSE)
    ELSE ManyEdges

\* the log after a sampling step that toggled menuActive (toggled) or not;
\* the step closes the observation of a pair of edges
TickSeen(toggled) ==
    IF edgeLog.count \in {1, 2}
    THEN [edgeLog EXCEPT !.toggles = @ + (IF toggled THEN 1 ELSE 0),
                         !.judged = (edgeLog.count = 2)]
    ELSE edgeLog

(***************************************************************************)
(* Startup: static initializers followed by setup()                        *)
(***************************************************************************)
Boot ==
    /\ moistureThreshold' = InitialThreshold
    /\ currentMoisture' = 0
    /\ menuActive' = FALSE
    /\ systemMode' = FALSE
    /\ lastMenuButtonState' = HIGH
    /\ lastPlusButtonState' = HIGH
    /\ lastMinusButtonState' = HIGH
    /\ lastDebounceTime' = 0
    /\ lastMoistureCheckTime' = 0
    /\ lastThresholdAdjustTime' = 0
    /\ relay' = LOW
    /\ buzzer' = LOW
    /\ now' = SetupDelay
    /\ prefStarted' = TRUE
    /\ pc' = "handleClient"
    /\ op' = "boot"
    /\ response' = NoResponse
    /\ served' = 0
    /\ modeToggled' = FALSE

Init ==
    /\ moistureThreshold = DefaultThreshold
    /\ currentMoisture = 0
    /\ menuActive = FALSE
    /\ systemMode = FALSE
    /\ lastMenuButtonState = HIGH
    /\ lastPlusButtonState = HIGH
    /\ lastMinusButtonState = HIGH
    /\ lastDebounceTime = 0
    /\ lastMoistureCheckTime = 0
    /\ lastThresholdAdjustTime = 0
    /\ relay = LOW
    /\ buzzer = LOW
    /\ menuPin = HIGH
    /\ now = SetupDelay
    /\ prefStarted = TRUE
    /\ nvs = <<>>
    /\ pc = "handleClient"
    /\ op = "boot"
    /\ response = NoResponse
    /\ served = 0
    /\ modeToggled = FALSE
    /\ edgeLog = NoEdges
    /\ request = NoRequest

\* power cycle: the store and the buttons keep their state, the rest restarts
Restart ==
    /\ Boot
    /\ UNCHANGED << nvs, menuPin, edgeLog, request >>

(***************************************************************************)
(* Request handlers registered by setupServer()                            *)
(***************************************************************************)
\* a reading of the unsigned clock
Clock(t) == t % ClockModulus

\* unsigned difference of two millis() readings
Elapsed(t, since) == Clock(t - since)

StatusText(m) ==
    IF systemMode
    THEN (IF m < moistureThreshold THEN "Irrigating (WiFi)" ELSE "Idle (WiFi)")
    ELSE (IF m < moistureThreshold THEN "Irrigating (Manual)" ELSE "Idle (Manual)")

\* variant: the /status handler drives the relay in both modes
StatusRelay_BothModes(m) == Level(m < moistureThreshold)

\* the relay write of the /status handler: only in WiFi mode
StatusRelay(m) ==
    IF systemMode THEN Level(m < moistureThreshold) ELSE relay

\* the buzzer write shared by /status and processIrrigation
CriticalAlert(m) == Level(m < BuzzerLevel)

\* server.on("/status", ...)
StatusHandler(raw) ==
    LET moisturePercentage == StatusPercentage(raw)
    IN  /\ currentMoisture' = raw
        /\ relay' = StatusRelay(moisturePercentage)
        /\ buzzer' = CriticalAlert(moisturePercentage)
        /\ response' = Json(moisturePercentage, moistureThreshold,
                            StatusText(moisturePercentage))
        /\ UNCHANGED << moistureThreshold, menuActive, systemMode,
                        lastMenuButtonState, lastPlusButtonState,
                        lastMinusButtonState, lastDebounceTime,
                        lastMoistureCheckTime, lastThresholdAdjustTime,
                        now, prefStarted, nvs, modeToggled >>

\* the threshold a /threshold request leaves in memory
\* variant: an unknown action restores the default threshold
RequestedThreshold_UnknownActionResets(req) ==
    IF req.hasAction
    THEN (IF req.action = "increase" THEN min(moistureThreshold + 1, 100)
          ELSE IF req.action = "decrease" THEN max(moistureThreshold - 1, 0)
          ELSE DefaultThreshold)
    ELSE IF req.hasValue THEN toInt(req.value)
    ELSE moistureThreshold

RequestedThreshold(req) ==
    IF req.hasAction
    THEN (IF req.action = "increase" THEN min(moistureThreshold + 1, 100)
          ELSE IF req.action = "decrease" THEN max(moistureThreshold - 1, 0)
          ELSE moistureThreshold)
    ELSE IF req.hasValue THEN toInt(req.value)
    ELSE moistureThreshold

\* server.on("/threshold", ...)
ThresholdHandler(req) ==
    /\ moistureThreshold' = RequestedThreshold(req)
    /\ nvs' = putInt(moistureThreshold')
    /\ prefStarted' = FALSE
    /\ response' = Text("Threshold updated")
    /\ UNCHANGED << currentMoisture, menuActive, systemMode,
                    lastMenuButtonState, lastPlusButtonState,
                    lastMinusButtonState, lastDebounceTime,
                    lastMoistureCheckTime, lastThresholdAdjustTime,
                    relay, buzzer, now, modeToggled >>

\* variant: the request selects WiFi mode instead of flipping the mode
ToggleModeHandler_SetsWiFi ==
    /\ systemMode' = TRUE
    /\ modeToggled' = ~modeToggled
    /\ now' = Clock(now + ToggleDelay)
    /\ response' = Text("Mode toggled")
    /\ UNCHANGED << moistureThreshold, currentMoisture, menuActive,
                    lastMenuButtonState, lastPlusButtonState,
                    lastMinusButtonState, lastDebounceTime,
                    lastMoistureCheckTime, lastThresholdAdjustTime,
                    relay, buzzer, prefStarted, nvs >>

\* server.on("/toggle-mode", ...), delay(1500) included
ToggleModeHandler ==
    /\ systemMode' = ~systemMode
    /\ modeToggled' = ~modeToggled
    /\ now' = Clock(now + ToggleDelay)
    /\ response' = Text("Mode toggled")
    /\ UNCHANGED << moistureThreshold, currentMoisture, menuActive,
                    lastMenuButtonState, lastPlusButtonState,
                    lastMinusButtonState, lastDebounceTime,
                    lastMoistureCheckTime, lastThresholdAdjustTime,
                    relay, buzzer, prefStarted, nvs >>

\* server.on("/", ...)
RootHandler ==
    /\ response' = Text("htmlPage")
    /\ UNCHANGED << moistureThreshold, currentMoisture, menuActive, systemMode,
                    lastMenuButtonState, lastPlusButtonState,
                    lastMinusButtonState, lastDebounceTime,
                    lastMoistureCheckTime, lastThresholdAdjustTime,
                    relay, buzzer, now, prefStarted, nvs, modeToggled >>

(***************************************************************************)
(* loop(), first part: server.handleClient() serves at most one request    *)
(***************************************************************************)
Served(name) ==
    /\ pc = "handleClient"
    /\ served < MaxRequests
    /\ served' = served + 1
    /\ pc' = "sample"
    /\ op' = name
    /\ UNCHANGED menuPin

ServeRoot == Served("/") /\ RootHandler

ServeStatus == Served("/status") /\ \E raw \in RawValues : StatusHandler(raw)

ServeThreshold ==
    Served("/threshold") /\ \E req \in ThresholdRequests : ThresholdHandler(req)

ServeToggleMode ==
    /\ Served("/toggle-mode")
    /\ ToggleModeHandler

\* no client is waiting
NoClient ==
    /\ pc = "handleClient"
    /\ pc' = "sample"
    /\ op' = "noclient"
    /\ UNCHANGED << moistureThreshold, currentMoisture, menuActive, systemMode,
                    lastMenuButtonState, lastPlusButtonState,
                    lastMinusButtonState, lastDebounceTime,
                    lastMoistureCheckTime, lastThresholdAdjustTime,
                    relay, buzzer, menuPin, now,
                    prefStarted, nvs, response, served, modeToggled >>

(***************************************************************************)
(* loop(), second part: the sampling step and pref.end()                   *)
(***************************************************************************)
\* the menu button toggle of handleMenu: a press edge outside the debounce window
\* variant: the menu button is level-triggered
MenuPressed_Level(currentTime) ==
    /\ menuPin = LOW
    /\ Elapsed(currentTime, lastDebounceTime) > debounceDelay

MenuPressed(currentTime) ==
    /\ menuPin = LOW
    /\ lastMenuButtonState = HIGH
    /\ Elapsed(currentTime, lastDebounceTime) > debounceDelay

\* variant: the + branch needs a release before it fires again
PlusFires_OnPress(plusButtonState, currentTime) ==
    /\ plusButtonState = LOW
    /\ lastPlusButtonState = HIGH
    /\ Elapsed(currentTime, lastThresholdAdjustTime) >= thresholdAdjustInterval

\* the + branch of handleMenu fires
PlusFires(plusButtonState, currentTime) ==
    /\ plusButtonState = LOW
    /\ Elapsed(currentTime, lastThresholdAdjustTime) >= thresholdAdjustInterval

\* variant: the - branch compares with the time of the last adjustment of an
\* earlier call
MinusFires_OwnGate(minusButtonState, currentTime, adjustTime) ==
    /\ minusButtonState = LOW
    /\ Elapsed(currentTime, lastThresholdAdjustTime) >= thresholdAdjustInterval

\* the - branch of handleMenu fires; adjustTime is lastThresholdAdjustTime as the
\* + branch left it
MinusFires(minusButtonState, currentTime, adjustTime) ==
    /\ minusButtonState = LOW
    /\ Elapsed(currentTime, adjustTime) >= thresholdAdjustInterval

\* variant: + and - adjust the threshold whether or not the menu is open
handleMenu_AdjustAlways(moisturePercentage, plusButtonState, minusButtonState) ==
    LET currentTime == now
        pressed == MenuPressed(currentTime)
        plus == PlusFires(plusButtonState, currentTime)
        afterPlus == IF plus THEN min(moistureThreshold + 1, 100)
                     ELSE moistureThreshold
        adjustTime == IF plus THEN currentTime ELSE lastThresholdAdjustTime
        minus == MinusFires(minusButtonState, currentTime, adjustTime)
        afterMinus == IF minus THEN max(afterPlus - 1, 0) ELSE afterPlus
    IN  /\ menuActive' = IF pressed THEN ~menuActive ELSE menuActive
        /\ lastDebounceTime' = IF pressed THEN currentTime ELSE lastDebounceTime
        /\ lastMenuButtonState' = menuPin
        /\ moistureThreshold' = afterMinus
        /\ lastThresholdAdjustTime' = IF minus THEN currentTime ELSE adjustTime
        /\ nvs' = putInt(moistureThreshold')
        /\ lastPlusButtonState' = plusButtonState
        /\ lastMinusButtonState' = minusButtonState

\* void handleMenu(int moisturePercentage); plusButtonState and minusButtonState
\* are the levels digitalRead gives for PLUS_BUTTON_PIN and MINUS_BUTTON_PIN
handleMenu(moisturePercentage, plusButtonState, minusButtonState) ==
    LET currentTime == now
        pressed == MenuPressed(currentTime)
        plus == PlusFires(plusButtonState, currentTime)
        afterPlus == IF plus THEN min(moistureThreshold + 1, 100)
                     ELSE moistureThreshold
        adjustTime == IF plus THEN currentTime ELSE lastThresholdAdjustTime
        minus == MinusFires(minusButtonState, currentTime, adjustTime)
        afterMinus == IF minus THEN max(afterPlus - 1, 0) ELSE afterPlus
    IN  /\ menuActive' = IF pressed THEN ~menuActive ELSE menuActive
        /\ lastDebounceTime' = IF pressed THEN currentTime ELSE lastDebounceTime
        /\ lastMenuButtonState' = menuPin
        /\ IF menuActive'
           THEN /\ moistureThreshold' = afterMinus
                /\ lastThresholdAdjustTime' =
                       IF minus THEN currentTime ELSE adjustTime
                /\ nvs' = putInt(moistureThreshold')
           ELSE UNCHANGED << moistureThreshold, lastThresholdAdjustTime, nvs >>
        /\ lastPlusButtonState' = plusButtonState
        /\ lastMinusButtonState' = minusButtonState

\* variant: the comparison with the threshold is not strict
IrrigationRelay_NotStrict(moisturePercentage, threshold) ==
    IF ~systemMode THEN Level(moisturePercentage <= threshold) ELSE relay

\* variant: the loop drives the relay in both modes
IrrigationRelay_BothModes(moisturePercentage, threshold) ==
    Level(moisturePercentage < threshold)

\* the relay write of processIrrigation: only in manual mode
IrrigationRelay(moisturePercentage, threshold) ==
    IF ~systemMode THEN Level(moisturePercentage < threshold) ELSE relay

\* variant: the buzzer is written inside the manual-mode branch
processIrrigation_BuzzerInManualBranch(moisturePercentage) ==
    /\ relay' = IrrigationRelay(moisturePercentage, moistureThreshold')
    /\ buzzer' = IF ~systemMode THEN CriticalAlert(moisturePercentage) ELSE buzzer

\* variant: the relay is switched on but never off
processIrrigation_Latching(moisturePercentage) ==
    /\ relay' = IF ~systemMode /\ moisturePercentage < moistureThreshold'
                THEN HIGH ELSE relay
    /\ buzzer' = CriticalAlert(moisturePercentage)

\* void processIrrigation(int moisturePercentage); it runs after handleMenu and
\* reads the threshold that handleMenu left
processIrrigation(moisturePercentage) ==
    /\ relay' = IrrigationRelay(moisturePercentage, moistureThreshold')
    /\ buzzer' = CriticalAlert(moisturePercentage)

\* variant: the sampling interval must have been exceeded
SampleDue_Strict(currentTime) ==
    Elapsed(currentTime, lastMoistureCheckTime) > moistureCheckInterval

\* loop() when the sampling interval has passed
SampleDue(currentTime) ==
    Elapsed(currentTime, lastMoistureCheckTime) >= moistureCheckInterval

\* variant: the actuation decision reads menuActive as it was before handleMenu
Sampling_MenuBefore(raw, plusButtonState, minusButtonState) ==
    LET moisturePercentage == MoisturePercentage(raw)
    IN  /\ currentMoisture' = raw
        /\ handleMenu(moisturePercentage, plusButtonState, minusButtonState)
        /\ IF ~menuActive
           THEN processIrrigation(moisturePercentage)
           ELSE UNCHANGED << relay, buzzer >>
        /\ lastMoistureCheckTime' = now

\* the body of the if of loop(), for the sample raw
Sampling(raw, plusButtonState, minusButtonState) ==
    LET moisturePercentage == MoisturePercentage(raw)
    IN  /\ currentMoisture' = raw
        /\ handleMenu(moisturePercentage, plusButtonState, minusButtonState)
        /\ IF ~menuActive'
           THEN processIrrigation(moisturePercentage)
           ELSE UNCHANGED << relay, buzzer >>
        /\ lastMoistureCheckTime' = now

LoopSample ==
    /\ pc = "sample"
    /\ SampleDue(now)
    /\ \E raw \in RawValues, plusButtonState \in {LOW, HIGH},
          minusButtonState \in {LOW, HIGH} :
            Sampling(raw, plusButtonState, minusButtonState)
    /\ prefStarted' = FALSE
    /\ pc' = "handleClient"
    /\ op' = "sample"
    /\ response' = NoResponse
    /\ UNCHANGED << systemMode, menuPin, now, served, modeToggled >>

\* loop() between two sampling steps: only pref.end()
LoopSkip ==
    /\ pc = "sample"
    /\ ~SampleDue(now)
    /\ prefStarted' = FALSE
    /\ pc' = "handleClient"
    /\ op' = "skip"
    /\ response' = NoResponse
    /\ UNCHANGED << moistureThreshold, currentMoisture, menuActive, systemMode,
                    lastMenuButtonState, lastPlusButtonState,
                    lastMinusButtonState, lastDebounceTime,
                    lastMoistureCheckTime, lastThresholdAdjustTime,
                    relay, buzzer, menuPin, now, nvs, served, modeToggled >>

(***************************************************************************)
(* Environment                                                             *)
(***************************************************************************)
program == << moistureThreshold, currentMoisture, menuActive, systemMode,
              lastMenuButtonState, lastPlusButtonState, lastMinusButtonState,
              lastDebounceTime, lastMoistureCheckTime, lastThresholdAdjustTime,
              relay, buzzer, prefStarted, nvs, pc, op, response, served,
              modeToggled >>

Advance ==
    /\ \E d \in TimeSteps :
          /\ now + d <= MaxTime
          /\ (now + d) % 500 \in TimeGrid
          /\ now' = now + d
    /\ UNCHANGED << program, menuPin >>

Flip(level) == IF level = HIGH THEN LOW ELSE HIGH

MenuButton ==
    /\ menuPin' = Flip(menuPin)
    /\ UNCHANGED << program, now >>

\* the observers are off
Quiet == UNCHANGED << edgeLog, request >>

Next ==
    \/ ServeRoot /\ Quiet
    \/ ServeStatus /\ Quiet
    \/ ServeThreshold /\ Quiet
    \/ ServeToggleMode /\ Quiet
    \/ NoClient /\ Quiet
    \/ LoopSample /\ Quiet
    \/ LoopSkip /\ Quiet
    \/ Advance /\ Quiet
    \/ MenuButton /\ Quiet

Spec == Init /\ [][Next]_vars

\* the same program on a board that may be power cycled
NextRestart ==
    \/ Next
    \/ Restart

SpecRestart == Init /\ [][NextRestart]_vars

\* the same program with the observer of the menu button on
ObserveButton ==
    /\ edgeLog' = IF menuPin = HIGH /\ menuPin' = LOW THEN EdgeSeen(now) ELSE edgeLog
    /\ UNCHANGED request

ObserveSample ==
    /\ edgeLog' = TickSeen(menuActive' # menuActive)
    /\ UNCHANGED request

NextEdges ==
    \/ ServeRoot /\ Quiet
    \/ ServeStatus /\ Quiet
    \/ ServeThreshold /\ Quiet
    \/ ServeToggleMode /\ Quiet
    \/ NoClient /\ Quiet
    \/ LoopSample /\ ObserveSample
    \/ LoopSkip /\ Quiet
    \/ Advance /\ Quiet
    \/ MenuButton /\ ObserveButton

SpecEdges == Init /\ [][NextEdges]_vars

\* the same program over more sampling ticks: time passes one sampling interval
\* at a time, and the clients only read the status and toggle the mode
AdvanceTick ==
    /\ now + moistureCheckInterval <= MaxMenuTime
    /\ now' = now + moistureCheckInterval
    /\ UNCHANGED << program, menuPin >>

NextMenu ==
    \/ ServeStatus /\ Quiet
    \/ ServeToggleMode /\ Quiet
    \/ NoClient /\ Quiet
    \/ LoopSample /\ Quiet
    \/ LoopSkip /\ Quiet
    \/ AdvanceTick /\ Quiet
    \/ MenuButton /\ Quiet

SpecMenu == Init /\ [][NextMenu]_vars

\* the same program running without end, + and - released. The clock wraps
\* around; a loop() iteration is much shorter than the sampling interval, so
\* time does not pass a further interval while a sampling step is due
LoopSampleReleased ==
    /\ pc = "sample"
    /\ SampleDue(now)
    /\ \E raw \in RawValues : Sampling(raw, HIGH, HIGH)
    /\ prefStarted' = FALSE
    /\ pc' = "handleClient"
    /\ op' = "sample"
    /\ response' = NoResponse
    /\ UNCHANGED << systemMode, menuPin, now, served, modeToggled >>

AdvanceLive ==
    /\ ~SampleDue(now)
    /\ now' = Clock(now + moistureCheckInterval)
    /\ UNCHANGED << program, menuPin >>

HandleClientLive ==
    \/ ServeStatus /\ Quiet
    \/ ServeToggleMode /\ Quiet
    \/ NoClient /\ Quiet

LoopBodyLive ==
    \/ LoopSampleReleased /\ Quiet
    \/ LoopSkip /\ Quiet

NextLive ==
    \/ HandleClientLive
    \/ LoopBodyLive
    \/ AdvanceLive /\ Quiet
    \/ MenuButton /\ Quiet

\* loop() is called again and again, and time passes
Fairness ==
    /\ WF_vars(HandleClientLive)
    /\ WF_vars(LoopBodyLive)
    /\ WF_vars(AdvanceLive /\ Quiet)

SpecLive == Init /\ [][NextLive]_vars /\ Fairness

\* the same program with the observer of the /threshold arguments on: the
\* arguments of the request being served are visible until the loop goes on
Forget == request' = NoRequest /\ UNCHANGED edgeLog

ServeThresholdArgs ==
    /\ Served("/threshold")
    /\ \E req \in ThresholdRequests : ThresholdHandler(req) /\ request' = req
    /\ UNCHANGED edgeLog

NextRequests ==
    \/ ServeRoot /\ Forget
    \/ ServeStatus /\ Forget
    \/ ServeThresholdArgs
    \/ ServeToggleMode /\ Forget
    \/ NoClient /\ Quiet
    \/ LoopSample /\ Forget
    \/ LoopSkip /\ Forget
    \/ Advance /\ Quiet
    \/ MenuButton /\ Quiet

SpecRequests == Init /\ [][NextRequests]_vars

\* the same program in soil whose moisture does not change during the run: the
\* first reading of the sensor is any raw value of the 12-bit ADC, every later
\* reading repeats it; the buttons stay released and no other time passes than
\* the delay of /toggle-mode
AdcRange == 0..AdcMax

NothingReadYet == served = 0 /\ lastMoistureCheckTime = 0

SoilValues == IF NothingReadYet THEN AdcRange ELSE {currentMoisture}

ServeStatusSoil == Served("/status") /\ \E raw \in SoilValues : StatusHandler(raw)

LoopSampleSoil ==
    /\ pc = "sample"
    /\ SampleDue(now)
    /\ \E raw \in SoilValues : Sampling(raw, HIGH, HIGH)
    /\ prefStarted' = FALSE
    /\ pc' = "handleClient"
    /\ op' = "sample"
    /\ response' = NoResponse
    /\ UNCHANGED << systemMode, menuPin, now, served, modeToggled >>

NextSensor ==
    \/ ServeStatusSoil /\ Quiet
    \/ ServeToggleMode /\ Quiet
    \/ NoClient /\ Quiet
    \/ LoopSampleSoil /\ Quiet
    \/ LoopSkip /\ Quiet

SpecSensor == Init /\ [][NextSensor]_vars

(***************************************************************************)
(* The steps the properties speak about                                    *)
(***************************************************************************)
\* a loop() iteration that runs the sampling step
SampleStep == pc = "sample" /\ pc' = "handleClient" /\ op' = "sample"
\* handleClient() serving a /status, /threshold or /toggle-mode request
StatusStep == pc = "handleClient" /\ pc' = "sample" /\ op' = "/status"
ThresholdStep == pc = "handleClient" /\ pc' = "sample" /\ op' = "/threshold"
ToggleStep == pc = "handleClient" /\ pc' = "sample" /\ op' = "/toggle-mode"

\* the moisture percentage of the last sample read
Moisture == MoisturePercentage(currentMoisture)

(***************************************************************************)
(* Properties                                                              *)
(***************************************************************************)

\* C1: after any sequence of threshold mutations (menu + / -, /threshold with
\* action=increase, action=decrease or value=N) moistureThreshold is in [0,100].
\* The code stores value=N unclamped, so this is violated (value=150).
C1_ThresholdInRange == moistureThreshold \in 0..100

\* C2: no step that starts and ends with menuActive true changes the relay,
\* whatever the step is (sampling tick, /status, /threshold, /toggle-mode).
\* The /status handler writes the relay in WiFi mode with the menu open, so
\* this is violated.
C2_MenuKeepsRelay == [][menuActive /\ menuActive' => relay' = relay]_vars

\* C3 as stated: at the end of every sampling tick and of every /status request
\* the buzzer is HIGH iff the moisture read in that step is < 20, for every
\* systemMode and menuActive. A tick that ends in menu mode skips
\* processIrrigation, so this is violated.
C3_BuzzerEveryTick ==
    op \in {"sample", "/status"} => (buzzer = HIGH <=> Moisture < BuzzerLevel)

\* C3 amended: at the end of every /status request (any systemMode, any
\* menuActive) and at the end of every sampling tick that ends with menuActive
\* false (any systemMode), the buzzer is HIGH iff the moisture read in that step
\* is < 20.
C3_Buzzer ==
    (op = "/status" \/ (op = "sample" /\ ~menuActive))
        => (buzzer = HIGH <=> Moisture < BuzzerLevel)

\* a sampling tick in WiFi mode, menu closed, that switched the buzzer on
C3_Witness ==
    /\ op = "sample" /\ systemMode /\ ~menuActive
    /\ Moisture < BuzzerLevel /\ buzzer = HIGH

\* C4: a sampling tick that ends in manual mode with the menu closed leaves the
\* relay HIGH iff m < t and the buzzer HIGH iff m < 20; a /status request in
\* manual mode reports "Irrigating (Manual)" iff m < t, otherwise
\* "Idle (Manual)"; and a /status request that follows such a tick and reads the
\* same m reports "Irrigating (Manual)" iff the relay is HIGH.
C4_ManualActuation ==
    [][ /\ (SampleStep /\ ~systemMode' /\ ~menuActive')
            => /\ relay' = HIGH <=> Moisture' < moistureThreshold'
               /\ buzzer' = HIGH <=> Moisture' < BuzzerLevel
        /\ (StatusStep /\ ~systemMode)
            => response'.body = IF Moisture' < moistureThreshold
                                THEN "Irrigating (Manual)" ELSE "Idle (Manual)"
        /\ (StatusStep /\ op = "sample" /\ ~systemMode /\ ~menuActive
              /\ currentMoisture' = currentMoisture)
            => (response'.body = "Irrigating (Manual)" <=> relay' = HIGH)
      ]_vars

\* moisture 19, threshold 40, manual mode, menu closed: relay and buzzer HIGH and
\* /status answers "Irrigating (Manual)"
C4_Witness ==
    /\ op = "/status" /\ ~systemMode /\ ~menuActive
    /\ Moisture = 19 /\ moistureThreshold = 40
    /\ relay = HIGH /\ buzzer = HIGH
    /\ response.body = "Irrigating (Manual)"

\* C5: a /status request handled in WiFi mode sets the relay HIGH iff m < t and
\* answers "Irrigating (WiFi)" iff m < t, otherwise "Idle (WiFi)"; a /status
\* request handled in manual mode leaves the relay as it was.
C5_WiFiStatus ==
    [][ /\ (StatusStep /\ systemMode)
            => /\ relay' = HIGH <=> Moisture' < moistureThreshold
               /\ response'.body = IF Moisture' < moistureThreshold
                                   THEN "Irrigating (WiFi)" ELSE "Idle (WiFi)"
        /\ (StatusStep /\ ~systemMode) => relay' = relay
      ]_vars

\* moisture 19, threshold 40, WiFi mode: /status answers "Irrigating (WiFi)" and
\* the relay is HIGH
C5_Witness ==
    /\ op = "/status" /\ systemMode
    /\ Moisture = 19 /\ moistureThreshold = 40
    /\ relay = HIGH /\ response.body = "Irrigating (WiFi)"

\* C6: in WiFi mode a sampling tick leaves the relay unchanged, and any step
\* that changes the relay while systemMode is WiFi is a /status step.
C6_WiFiLoopKeepsRelay ==
    [][ /\ (SampleStep /\ systemMode) => relay' = relay
        /\ (systemMode /\ relay' # relay) => StatusStep
      ]_vars

\* a sampling tick in WiFi mode, menu closed, soil drier than the threshold, and
\* the relay still LOW
C6_Witness ==
    /\ op = "sample" /\ systemMode /\ ~menuActive
    /\ Moisture < moistureThreshold /\ relay = LOW

\* C7: systemMode changes only in a /toggle-mode step; that step flips it and
\* leaves moistureThreshold, menuActive, relay and buzzer unchanged; after an
\* even number of /toggle-mode requests systemMode has its original value
\* (manual), after an odd number the other one.
C7_ToggleMode ==
    /\ [](systemMode = modeToggled)
    /\ [][ /\ systemMode' # systemMode => ToggleStep
           /\ ToggleStep
               => /\ systemMode' = ~systemMode
                  /\ UNCHANGED << moistureThreshold, menuActive, relay, buzzer >>
         ]_vars

\* two /toggle-mode requests served: the mode is manual again
C7_Witness ==
    /\ op = "/toggle-mode" /\ served = 2 /\ ~modeToggled
    /\ ~systemMode

\* C8: two raw press edges of the menu button less than 50 ms apart produce
\* exactly one toggle of menuActive, two raw press edges 50 ms or more apart
\* produce two; judged at the first sampling step after the second edge.
\* handleMenu reads the button only in the sampling step, once per second, so
\* this is violated.
C8_Debounce ==
    (edgeLog.count = 2 /\ edgeLog.judged)
        => edgeLog.toggles = IF edgeLog.gap < debounceDelay THEN 1 ELSE 2

\* C9: every step of the running program that changes moistureThreshold leaves
\* the new value stored under the key "threshold". loop() closes the
\* Preferences handle at the end of its first iteration (and the /threshold
\* handler closes it too), so later puts store nothing: violated.
C9_EveryMutationPersisted ==
    [][moistureThreshold' # moistureThreshold => nvs' = << moistureThreshold' >>]_vars

\* C10: after startup moistureThreshold equals the value stored under the key
\* "threshold" when the key exists and 40 when it does not. The initializer
\* runs on a Preferences handle that is not open yet, so it always gives 40:
\* violated once a value other than 40 has been stored.
C10_LoadedAtStartup ==
    op = "boot" => moistureThreshold = IF nvs = <<>> THEN DefaultThreshold ELSE nvs[1]

\* C11: for every raw sensor value r in 0..4095 the moisture percentage
\* 100 - map(r, 0, 4095, 0, 100) is in [0,100] and does not increase with r
\* (checked between r - 1 and r for every r, which gives it for every pair),
\* and the percentage a /status request reports for r is the one loop()
\* computes for r.
C11_Percentage ==
    /\ currentMoisture \in AdcRange
    /\ Moisture \in 0..100
    /\ currentMoisture > 0 => MoisturePercentage(currentMoisture - 1) >= Moisture
    /\ op = "/status" => response.moisture = Moisture

\* the driest reading, 4095, reported as 0 % by /status
C11_Witness ==
    /\ op = "/status" /\ currentMoisture = AdcMax
    /\ response.moisture = 0 /\ Moisture = 0

(***************************************************************************)
(* C12: a malformed /threshold request is answered like any other. A        *)
(* request whose action is neither "increase" nor "decrease", or that has   *)
(* neither an action nor a value, leaves moistureThreshold unchanged; a     *)
(* request whose value holds no digit sets it to 0; every /threshold        *)
(* request gets the plain acknowledgement and leaves systemMode,            *)
(* menuActive, relay and buzzer unchanged.                                  *)
(***************************************************************************)
UnknownAction(req) == req.hasAction /\ req.action \notin {"increase", "decrease"}

NoArguments(req) == ~req.hasAction /\ ~req.hasValue

NonNumericValue(req) ==
    /\ ~req.hasAction
    /\ req.hasValue
    /\ \A i \in 1..Len(req.value) : ~IsDigit(req.value[i])

C12_MalformedStep ==
    ThresholdStep =>
        /\ request' \in ThresholdRequests
        /\ response' = Text("Threshold updated")
        /\ UNCHANGED << systemMode, menuActive, relay, buzzer >>
        /\ (UnknownAction(request') \/ NoArguments(request'))
               => moistureThreshold' = moistureThreshold
        /\ NonNumericValue(request') => moistureThreshold' = 0

C12_Malformed == [][C12_MalformedStep]_vars

C12_Witness ==
    /\ op = "/threshold"
    /\ NonNumericValue(request)
    /\ moistureThreshold = 0
    /\ response = Text("Threshold updated")

(***************************************************************************)
(* C13: inside one sampling tick the menu button is resolved before the    *)
(* actuation decision. A tick that ends with menuActive true (the menu     *)
(* was open and stays open, or an accepted press opens it) writes neither  *)
(* relay nor buzzer; a tick that ends with menuActive false (also when an  *)
(* accepted press closes the menu in that tick) performs the writes of     *)
(* processIrrigation for the sample of that tick.                          *)
(***************************************************************************)
ActuationWritten ==
    /\ buzzer' = Level(Moisture' < BuzzerLevel)
    /\ ~systemMode => relay' = Level(Moisture' < moistureThreshold')
    /\ systemMode => relay' = relay

C13_TickOrderStep ==
    SampleStep =>
        /\ menuActive' => UNCHANGED << relay, buzzer >>
        /\ ~menuActive' => ActuationWritten
        /\ menuActive' # menuActive => menuPin = LOW /\ lastMenuButtonState = HIGH

C13_TickOrder == [][C13_TickOrderStep]_vars

\* the first tick after boot opens the menu, the second sees the button
\* released, the third closes the menu and switches relay and buzzer on
C13_Witness ==
    /\ op = "sample" /\ served = 0
    /\ lastMoistureCheckTime = SetupDelay + 2 * moistureCheckInterval
    /\ ~menuActive /\ lastMenuButtonState = LOW
    /\ relay = HIGH /\ buzzer = HIGH

(***************************************************************************)
(* C14: the menu button is edge-triggered. A handleMenu call toggles       *)
(* menuActive exactly when the menu input reads LOW and the level the      *)
(* previous call recorded is HIGH, and it records the level it read;       *)
(* nothing else changes menuActive or the recorded level. So a button held *)
(* LOW over consecutive ticks toggles menuActive once, and no further      *)
(* toggle happens before a call has read HIGH.                             *)
(***************************************************************************)
MenuToggled == menuActive' # menuActive

C14_EdgeStep ==
    /\ SampleStep =>
          /\ MenuToggled <=> (menuPin = LOW /\ lastMenuButtonState = HIGH)
          /\ lastMenuButtonState' = menuPin
    /\ ~SampleStep => UNCHANGED << menuActive, lastMenuButtonState >>

C14_EdgeTriggered == [][C14_EdgeStep]_vars

\* the button is held LOW over the first two ticks after boot: the first tick
\* opened the menu, the second left it open
C14_Witness ==
    /\ op = "sample"
    /\ lastMoistureCheckTime = SetupDelay + moistureCheckInterval
    /\ lastDebounceTime = SetupDelay
    /\ lastMenuButtonState = LOW
    /\ menuActive

(***************************************************************************)
(* C15: repeat cadence of + and - in menu mode. In a sampling tick whose   *)
(* handleMenu call has menuActive true and whose time is at least 200 ms   *)
(* after the last accepted adjustment, + read LOW sets moistureThreshold   *)
(* to min(threshold + 1, 100) and - read LOW (with + released) sets it to  *)
(* max(threshold - 1, 0), whether or not the button was released since the *)
(* previous tick; two accepted adjustments are at least 200 ms apart.      *)
(***************************************************************************)
GateOpen == Elapsed(now, lastThresholdAdjustTime) >= thresholdAdjustInterval

AdjustmentAccepted == lastThresholdAdjustTime' # lastThresholdAdjustTime

C15_CadenceStep ==
    /\ (SampleStep /\ menuActive' /\ GateOpen) =>
          /\ lastPlusButtonState' = LOW
                => moistureThreshold' = min(moistureThreshold + 1, 100)
          /\ (lastMinusButtonState' = LOW /\ lastPlusButtonState' = HIGH)
                => moistureThreshold' = max(moistureThreshold - 1, 0)
    /\ AdjustmentAccepted =>
          /\ SampleStep /\ menuActive'
          /\ lastThresholdAdjustTime' = now
          /\ GateOpen

C15_Cadence == [][C15_CadenceStep]_vars

\* + is held LOW over the first two ticks after boot: 40, 41, 42
C15_Witness ==
    /\ op = "sample" /\ served = 0
    /\ lastMoistureCheckTime = SetupDelay + moistureCheckInterval
    /\ menuActive
    /\ lastPlusButtonState = LOW
    /\ moistureThreshold = DefaultThreshold + 2

(***************************************************************************)
(* C16: moistureThreshold changes only in a sampling tick whose handleMenu *)
(* call ends with menuActive true and has read + or - LOW, or in a         *)
(* /threshold request. A tick whose handleMenu call ends with menuActive   *)
(* false leaves it unchanged whatever + and - read; /status and            *)
(* /toggle-mode leave it unchanged.                                        *)
(***************************************************************************)
ButtonHeld == lastPlusButtonState' = LOW \/ lastMinusButtonState' = LOW

C16_ThresholdFrameStep ==
    /\ moistureThreshold' # moistureThreshold =>
          \/ SampleStep /\ menuActive' /\ ButtonHeld
          \/ ThresholdStep
    /\ (SampleStep /\ ~menuActive') => moistureThreshold' = moistureThreshold
    /\ (StatusStep \/ ToggleStep) => moistureThreshold' = moistureThreshold

C16_ThresholdFrame == [][C16_ThresholdFrameStep]_vars

\* a tick outside the menu has read + and - LOW, and the threshold is still the
\* one of boot
C16_Witness ==
    /\ op = "sample" /\ served = 0
    /\ ~menuActive /\ lastMenuButtonState = HIGH
    /\ lastPlusButtonState = LOW /\ lastMinusButtonState = LOW
    /\ moistureThreshold = DefaultThreshold

(***************************************************************************)
(* C17: a loop() iteration first serves the network (at most one request), *)
(* then reads the time and runs the sampling step iff that time is at      *)
(* least 1000 ms after lastMoistureCheckTime. Two sampling steps are       *)
(* therefore at least 1000 ms apart, and an iteration without a sampling   *)
(* step leaves sensor value, button records, menu, relay and buzzer alone. *)
(***************************************************************************)
ClientPart == pc = "handleClient" /\ pc' # pc

SamplePart == pc = "sample" /\ pc' # pc

C17_LoopOrderStep ==
    /\ ClientPart =>
          /\ pc' = "sample"
          /\ op' \in {"/", "/status", "/threshold", "/toggle-mode", "noclient"}
          /\ lastMoistureCheckTime' = lastMoistureCheckTime
    /\ SamplePart =>
          /\ pc' = "handleClient"
          /\ op' \in {"sample", "skip"}
          /\ op' = "sample" <=>
                Elapsed(now, lastMoistureCheckTime) >= moistureCheckInterval
    /\ SampleStep =>
          /\ lastMoistureCheckTime' = now
          /\ lastMoistureCheckTime' - lastMoistureCheckTime >= moistureCheckInterval
    /\ (SamplePart /\ ~SampleStep) =>
          UNCHANGED << currentMoisture, lastMoistureCheckTime, menuActive,
                       lastMenuButtonState, lastPlusButtonState,
                       lastMinusButtonState, moistureThreshold, relay, buzzer >>

C17_LoopOrder == [][C17_LoopOrderStep]_vars

\* the iteration served /toggle-mode 1000 ms after the first sample; its
\* sampling step ran at the time read after the delay of the handler
C17_Witness ==
    /\ op = "sample" /\ served = 1 /\ modeToggled
    /\ lastMoistureCheckTime = SetupDelay + moistureCheckInterval + ToggleDelay
    /\ now = lastMoistureCheckTime

(***************************************************************************)
(* C18: liveness in Manual mode. When loop() keeps running and time keeps  *)
(* passing, and from some point on systemMode stays Manual, menuActive     *)
(* stays false and the moisture read and the threshold no longer change,   *)
(* then from some point on the relay is HIGH exactly when the moisture     *)
(* percentage is below the threshold and the buzzer is HIGH exactly when   *)
(* it is below 20.                                                         *)
(***************************************************************************)
ManualSettledStep ==
    /\ ~systemMode' /\ ~menuActive'
    /\ currentMoisture' = currentMoisture
    /\ moistureThreshold' = moistureThreshold

Actuated ==
    /\ relay = Level(Moisture < moistureThreshold)
    /\ buzzer = Level(Moisture < BuzzerLevel)

C18_ManualLiveness == <>[][ManualSettledStep]_vars => <>[]Actuated

\* the clock has wrapped around, the menu has been opened and closed again
\* since boot, and pump and buzzer are on for a soil at 19 %
C18_Witness ==
    /\ now < SetupDelay
    /\ ~systemMode /\ ~menuActive /\ lastDebounceTime # 0
    /\ Moisture < BuzzerLevel
    /\ relay = HIGH /\ buzzer = HIGH

(***************************************************************************)
(* C19: one handleMenu call applies at most one adjustment step: the       *)
(* threshold it leaves is the old one, min(old + 1, 100) or                *)
(* max(old - 1, 0). When + and - both read LOW in menu mode with the       *)
(* 200 ms gate open, the + branch fires and moves lastThresholdAdjustTime  *)
(* to the time of the call, which closes the gate for the - branch: the    *)
(* result is min(old + 1, 100), never a +1/-1 pair that cancels.           *)
(***************************************************************************)
BothHeld == lastPlusButtonState' = LOW /\ lastMinusButtonState' = LOW

C19_OneStepPerCallStep ==
    SampleStep =>
        /\ moistureThreshold' \in { moistureThreshold,
                                    min(moistureThreshold + 1, 100),
                                    max(moistureThreshold - 1, 0) }
        /\ (menuActive' /\ BothHeld /\ GateOpen) =>
              /\ moistureThreshold' = min(moistureThreshold + 1, 100)
              /\ lastThresholdAdjustTime' = now

C19_OneStepPerCall == [][C19_OneStepPerCallStep]_vars

\* the first tick after boot opens the menu with + and - both held: 40 -> 41
C19_Witness ==
    /\ op = "sample" /\ served = 0
    /\ lastMoistureCheckTime = SetupDelay
    /\ menuActive
    /\ lastPlusButtonState = LOW /\ lastMinusButtonState = LOW
    /\ lastThresholdAdjustTime = SetupDelay
    /\ moistureThreshold = DefaultThreshold + 1

(***************************************************************************)
(* C20: status/relay agreement. Immediately after a /status request the    *)
(* returned status begins with "Irrigating" iff the relay is HIGH, in      *)
(* Manual and in WiFi mode, with the menu open or closed. In Manual mode   *)
(* the handler computes the text from its own reading and leaves the relay *)
(* as the loop wrote it last, so this is violated.                         *)
(***************************************************************************)
Irrigating(resp) == resp.body \in {"Irrigating (Manual)", "Irrigating (WiFi)"}

C20_StatusMatchesRelay ==
    op = "/status" => (Irrigating(response) <=> relay = HIGH)

====
